---- MODULE Spec2Model ----
(***************************************************************************)
(* IntervalBasedAnomalyDetector (sktime/forecasting/anomaly_detector.py).  *)
(*                                                                         *)
(* The detector holds a forecaster template and a coverage; fit clones the *)
(* template and fits the clone; predict / predict_proba ask the fitted     *)
(* clone for a prediction interval and turn bounds and observed values     *)
(* into labels and scores.                                                 *)
(*                                                                         *)
(* Numbers: observed values and interval bounds are integers; the floats   *)
(* computed by _predict_proba are exact rationals extended with the IEEE   *)
(* values +inf, -inf and NaN (records, see Fin / PInf / NInf / NaN).        *)
(* Coverage is counted in tenths (5 is 0.5, 10 is 1.0).                    *)
(***************************************************************************)
EXTENDS Integers, Sequences, FiniteSets, TLC

VARIABLES heap, det, out

vars == <<heap, det, out>>

\* ---------------------------------------------------------------- bounds
\* observed values of a query are in 0..MaxVal
MaxVal == 3
\* training values are in 1..MaxLevel
MaxLevel == 2

\* ------------------------------------------------------------ the inputs
Detectors == {1, 2}

\* the forecaster objects the caller owns: object 1 declares
\* capability:pred_int, object 2 does not
Templates == {1, 2}

\* an argument that is no BaseForecaster instance
NotAForecaster == 0

\* the value of an attribute that was never assigned
None == 0

\* coverage in tenths: -0.1, 0, 0.5, 0.9, 1, 1.5
Coverages == {0 - 1, 0, 5, 9, 10, 15}

\* the time indices of a series: every operation of the detector is
\* elementwise, so one time point of one channel shows it
Index == {1}

Queries == [Index -> 0..MaxVal]

Histories == [Index -> 1..MaxLevel]

\* hyper-parameters of the interval source: (sigma, skew) give the interval
\* [level - sigma*q, level + sigma*q + skew]; (1,0) is a proper interval,
\* (0,1) one with a non-integer centre, (0,0) a zero-width one and (0,-1) a
\* crossed one (upper < lower)
Shapes == {<<1, 0>>, <<0, 1>>, <<0, 0>>, <<0, 0 - 1>>}

\* ------------------------------------------------- extended real numbers
Fin(n, d) == [k |-> "fin", n |-> n, d |-> d]
PInf == [k |-> "+inf", n |-> 0, d |-> 1]
NInf == [k |-> "-inf", n |-> 0, d |-> 1]
NaN == [k |-> "nan", n |-> 0, d |-> 1]

Abs(i) == IF i < 0 THEN 0 - i ELSE i

\* np.abs of a float
FAbs(a) ==
    CASE a.k = "fin" -> Fin(Abs(a.n), a.d)
      [] a.k = "nan" -> NaN
      [] OTHER -> PInf

\* a - b for finite a, b (denominators are positive)
FSub(a, b) == Fin(a.n * b.d - b.n * a.d, a.d * b.d)

\* numpy's a / b for finite a, b: x/0 is +-inf, 0/0 is NaN (a warning, no
\* exception)
FDiv(a, b) ==
    IF b.n = 0
    THEN (IF a.n = 0 THEN NaN ELSE IF a.n > 0 THEN PInf ELSE NInf)
    ELSE IF b.n > 0 THEN Fin(a.n * b.d, a.d * b.n)
                    ELSE Fin(0 - a.n * b.d, 0 - a.d * b.n)

\* a < b and a <= b on the extended reals; every comparison with NaN is false
FLess(a, b) ==
    /\ a.k # "nan" /\ b.k # "nan"
    /\ \/ a.k = "-inf" /\ b.k # "-inf"
       \/ a.k # "+inf" /\ b.k = "+inf"
       \/ a.k = "fin" /\ b.k = "fin" /\ a.n * b.d < b.n * a.d

FEq(a, b) ==
    /\ a.k # "nan" /\ b.k # "nan"
    /\ \/ a.k = b.k /\ a.k # "fin"
       \/ a.k = "fin" /\ b.k = "fin" /\ a.n * b.d = b.n * a.d

FLeq(a, b) == FLess(a, b) \/ FEq(a, b)

\* z_scores - 1 (line 127): inf - 1 = inf, NaN - 1 = NaN
MinusOne(z) == IF z.k = "fin" THEN FSub(z, Fin(1, 1)) ELSE z

\* 1 / (1 + np.exp(-a)) (line 127).  exp(-(+inf)) = 0 gives exactly 1,
\* exp(+inf) = inf gives exactly 0, a = 0 gives exactly 1/2, NaN stays NaN.
\* For any other finite a the value is irrational: it is kept as the record
\* "sig" of a, the number 1/(1+e^(-a)) in (0,1).
sigmoid(a) ==
    CASE a.k = "nan" -> NaN
      [] a.k = "+inf" -> Fin(1, 1)
      [] a.k = "-inf" -> Fin(0, 1)
      [] OTHER -> IF a.n = 0 THEN Fin(1, 2)
                             ELSE [k |-> "sig", n |-> a.n, d |-> a.d]

\* the a with score = 1/(1+e^(-a)); the logistic function is strictly
\* increasing, so scores compare as their logits do
Logit(s) ==
    CASE s.k = "nan" -> NaN
      [] s.k = "sig" -> Fin(s.n, s.d)
      [] s = Fin(1, 1) -> PInf
      [] s = Fin(0, 1) -> NInf
      [] OTHER -> Fin(0, 1)

ScoreLeq(s, t) == FLeq(Logit(s), Logit(t))

\* score > 0.5
ScoreAboveHalf(s) == FLess(Fin(0, 1), Logit(s))

\* ------------------------------------------------ the interval source
\* (the forecaster: sktime's BaseForecaster and its subclasses)
Forecaster(cap, shape) ==
    [pred_int |-> cap, sigma |-> shape[1], skew |-> shape[2],
     is_fitted |-> FALSE, y |-> <<>>]

\* forecaster.get_tag("capability:pred_int")
get_tag(f) == f.pred_int

\* forecaster.clone(): a new unfitted object with the same hyper-parameters
clone(f) == [f EXCEPT !.is_fitted = FALSE, !.y = <<>>]

\* forecaster_.fit(X)
forecaster_fit(f, X) == [f EXCEPT !.is_fitted = TRUE, !.y = X]

\* the normal quantile of a coverage, in whole units: wider for a higher
\* coverage
quantile(coverage) == IF coverage < 9 THEN 1 ELSE 2

\* forecaster_.predict_interval(fh, coverage): per time index the bounds
\* around the last training value
predict_interval(f, fh, coverage) ==
    LET level == f.y[Len(f.y)]
        q == quantile(coverage)
    IN [i \in fh |-> [lower |-> level - f.sigma * q,
                      upper |-> level + f.sigma * q + f.skew]]

\* ------------------------------------------------------------- objects
State(h, dt) == [heap |-> h, det |-> dt]

Blank ==
    [made |-> FALSE, forecaster |-> None, coverage |-> None,
     forecaster_ |-> None, is_fitted |-> FALSE]

\* the result of a call: the state it leaves, the exception it raised
\* ("" for none) and the value it returned
Return(s, v) == [s |-> s, exc |-> "", ret |-> v]
Raise(s, e) == [s |-> s, exc |-> e, ret |-> <<>>]

\* the id of a newly allocated object
NewId(h) == CHOOSE i \in 1..(Cardinality(DOMAIN h) + 1) :
                /\ i \notin DOMAIN h
                /\ \A j \in 1..(i - 1) : j \in DOMAIN h

\* objects nobody references any more are freed: the caller keeps the
\* templates, a detector keeps its forecaster_
Live(s) == Templates \cup {s.det[d].forecaster_ : d \in DOMAIN s.det}

Collect(s) == [s EXCEPT !.heap = [i \in DOMAIN s.heap \cap Live(s) |-> s.heap[i]]]

\* ------------------------------------------- IntervalBasedAnomalyDetector
\* Every method takes the state s (heap and detectors) and the detector
\* self, and gives the result of the call.

\* __init__ with both ends of the coverage range accepted
init_closed(s, self, forecaster, coverage) ==
    IF forecaster \notin DOMAIN s.heap
    THEN Raise(s, "ValueError")
    ELSE IF ~get_tag(s.heap[forecaster])
    THEN Raise(s, "ValueError")
    ELSE IF ~(0 <= coverage /\ coverage <= 10)
    THEN Raise(s, "ValueError")
    ELSE Return([s EXCEPT !.det[self] =
                    [@ EXCEPT !.made = TRUE, !.forecaster = forecaster,
                              !.coverage = coverage]], <<>>)

__init__(s, self, forecaster, coverage) ==
    IF forecaster \notin DOMAIN s.heap
    THEN Raise(s, "ValueError")
    ELSE IF ~get_tag(s.heap[forecaster])
    THEN Raise(s, "ValueError")
    ELSE IF ~(0 < coverage /\ coverage < 10)
    THEN Raise(s, "ValueError")
    ELSE Return([s EXCEPT !.det[self] =
                    [@ EXCEPT !.made = TRUE, !.forecaster = forecaster,
                              !.coverage = coverage]], <<>>)

\* _fit that fits the template itself instead of a clone of it
fit_in_place(s, self, X, fails) ==
    LET f == s.det[self].forecaster
        s1 == [s EXCEPT !.det[self].forecaster_ = f]
    IN IF fails
       THEN Raise(s1, "FitError")
       ELSE Return([s1 EXCEPT !.heap[f] = forecaster_fit(@, X)], <<>>)

\* _fit that keeps an existing forecaster_ and extends its training data
fit_update(s, self, X, fails) ==
    LET old == s.det[self].forecaster_
        new == NewId(s.heap)
    IN IF old = None
       THEN LET s1 == [s EXCEPT
                         !.heap = (new :> clone(s.heap[s.det[self].forecaster])) @@ @,
                         !.det[self].forecaster_ = new]
            IN IF fails
               THEN Raise(s1, "FitError")
               ELSE Return([s1 EXCEPT !.heap[new] = forecaster_fit(@, X)], <<>>)
       ELSE IF fails
            THEN Raise(s, "FitError")
            ELSE Return([s EXCEPT !.heap[old] =
                            forecaster_fit(@, s.heap[old].y \o X)], <<>>)

\* fails: whether the interval source's fit raises on X
_fit(s, self, X, fails) ==
    LET new == NewId(s.heap)
        s1 == [s EXCEPT
                 !.heap = (new :> clone(s.heap[s.det[self].forecaster])) @@ @,
                 !.det[self].forecaster_ = new]
    IN IF fails
       THEN Raise(s1, "FitError")
       ELSE Return([s1 EXCEPT !.heap[new] = forecaster_fit(@, X)], <<>>)

lower_of(pred_int) == [i \in DOMAIN pred_int |-> pred_int[i].lower]

upper_of(pred_int) == [i \in DOMAIN pred_int |-> pred_int[i].upper]

\* the comparison with the bounds themselves counted as outside
anomalies_closed(X, lower, upper) ==
    [i \in DOMAIN X |-> (X[i] <= lower[i]) \/ (X[i] >= upper[i])]

anomalies(X, lower, upper) ==
    [i \in DOMAIN X |-> (X[i] < lower[i]) \/ (X[i] > upper[i])]

astype_int(b) == [i \in DOMAIN b |-> IF b[i] THEN 1 ELSE 0]

\* the interval query of _predict and _predict_proba: an attribute error
\* when forecaster_ was never assigned, the interval source's own error when
\* it is not fitted
query_interval(s, self, X) ==
    LET f == s.det[self].forecaster_
    IN IF f = None
       THEN Raise(s, "AttributeError")
       ELSE IF ~s.heap[f].is_fitted
       THEN Raise(s, "NotFittedError")
       ELSE Return(s, predict_interval(s.heap[f], DOMAIN X, s.det[self].coverage))

\* _predict that also lets the interval source see the query's values
predict_and_update(s, self, X) ==
    LET q == query_interval(s, self, X)
    IN IF q.exc # ""
       THEN q
       ELSE Return([s EXCEPT !.heap[s.det[self].forecaster_] = forecaster_fit(@, X)],
                   astype_int(anomalies(X, lower_of(q.ret), upper_of(q.ret))))

_predict(s, self, X) ==
    LET q == query_interval(s, self, X)
    IN IF q.exc # ""
       THEN q
       ELSE Return(s, astype_int(anomalies(X, lower_of(q.ret), upper_of(q.ret))))

\* (upper + lower) / 2
center(lower, upper) == [i \in DOMAIN lower |-> Fin(upper[i] + lower[i], 2)]

\* upper - lower
width(lower, upper) == [i \in DOMAIN lower |-> Fin(upper[i] - lower[i], 1)]

\* np.abs(X - center) / (width / 2)
z_scores(X, lower, upper) ==
    [i \in DOMAIN X |->
        FDiv(FAbs(FSub(Fin(X[i], 1), center(lower, upper)[i])),
             FDiv(width(lower, upper)[i], Fin(2, 1)))]

\* the logistic transform centred at z = 0 instead of z = 1
probs_uncentred(z) == [i \in DOMAIN z |-> sigmoid(z[i])]

\* 1 / (1 + np.exp(-(z_scores - 1)))
probs(z) == [i \in DOMAIN z |-> sigmoid(MinusOne(z[i]))]

_predict_proba(s, self, X) ==
    LET q == query_interval(s, self, X)
    IN IF q.exc # ""
       THEN q
       ELSE Return(s, probs(z_scores(X, lower_of(q.ret), upper_of(q.ret))))

\* ----------------------------------------- the base class (BaseClassifier)
\* check_is_fitted that lets every call through
check_nothing(s, self) == ""

check_is_fitted(s, self) ==
    IF s.det[self].is_fitted THEN "" ELSE "NotFittedError"

\* fit: _fit, and the detector is fitted once _fit has returned
fit(s, self, X, fails) ==
    LET r == _fit(s, self, X, fails)
    IN IF r.exc # ""
       THEN r
       ELSE Return([r.s EXCEPT !.det[self].is_fitted = TRUE], <<>>)

predict(s, self, X) ==
    IF check_is_fitted(s, self) # ""
    THEN Raise(s, check_is_fitted(s, self))
    ELSE _predict(s, self, X)

predict_proba(s, self, X) ==
    IF check_is_fitted(s, self) # ""
    THEN Raise(s, check_is_fitted(s, self))
    ELSE _predict_proba(s, self, X)

\* ------------------------------------------------------------ the machine
Call(op, d, r, arg, cov, X) ==
    [op |-> op, d |-> d, status |-> IF r.exc = "" THEN "ok" ELSE r.exc,
     arg |-> arg, cov |-> cov, X |-> X, ret |-> r.ret,
     refit |-> op = "fit" /\ det[d].is_fitted,
     again |-> /\ op \in {"predict", "predict_proba"}
               /\ out.op = op /\ out.d = d /\ out.X = X /\ out.status = "ok"]

Finish(r, c) ==
    /\ heap' = Collect(r.s).heap
    /\ det' = r.s.det
    /\ out' = c

Init ==
    /\ \E shape \in Shapes :
          heap = (1 :> Forecaster(TRUE, shape)) @@ (2 :> Forecaster(FALSE, shape))
    /\ det = [d \in Detectors |-> Blank]
    /\ out = [op |-> "none", d |-> 0, status |-> "ok", arg |-> 0, cov |-> 0,
              X |-> <<>>, ret |-> <<>>, refit |-> FALSE, again |-> FALSE]

\* detectors are numbered in the order they are built
Construct(d, forecaster, coverage) ==
    /\ ~det[d].made
    /\ \A e \in Detectors : e < d => det[e].made
    /\ LET r == __init__(State(heap, det), d, forecaster, coverage)
       IN Finish(r, Call("construct", d, r, forecaster, coverage, <<>>))

Fit(d, X, fails) ==
    /\ det[d].made
    /\ LET r == fit(State(heap, det), d, X, fails)
       IN Finish(r, Call("fit", d, r, 0, 0, X))

Predict(d, X) ==
    /\ det[d].made
    /\ LET r == predict(State(heap, det), d, X)
       IN Finish(r, Call("predict", d, r, 0, 0, X))

PredictProba(d, X) ==
    /\ det[d].made
    /\ LET r == predict_proba(State(heap, det), d, X)
       IN Finish(r, Call("predict_proba", d, r, 0, 0, X))

Next ==
    \/ \E d \in Detectors, f \in Templates \cup {NotAForecaster}, c \in Coverages :
          Construct(d, f, c)
    \/ \E d \in Detectors, X \in Histories, fails \in BOOLEAN : Fit(d, X, fails)
    \/ \E d \in Detectors, X \in Queries : Predict(d, X)
    \/ \E d \in Detectors, X \in Queries : PredictProba(d, X)

Spec == Init /\ [][Next]_vars

\* --------------------------------------------------------- the properties
PredOps == {"predict", "predict_proba"}

Now == State(heap, det)

\* the fitted interval source of detector d, and the bounds it gives a query
Source(d) == heap[det[d].forecaster_]

Bounds(d, X) == predict_interval(Source(d), DOMAIN X, det[d].coverage)

PredictedOk == out.op = "predict" /\ out.status = "ok"

ScoredOk == out.op = "predict_proba" /\ out.status = "ok"

\* C1 (as amended): predict labels a point 1 exactly when its value is
\* strictly below the lower or strictly above the upper bound, every label is
\* 0 or 1, and a value equal to a bound of an interval with lower <= upper is
\* labelled 0.
C1_LabelsStrictlyOutside ==
    PredictedOk =>
        \A i \in DOMAIN out.X :
            LET b == Bounds(out.d, out.X)[i]
                v == out.X[i]
            IN /\ out.ret[i] \in {0, 1}
               /\ out.ret[i] = 1 <=> (v < b.lower \/ v > b.upper)
               /\ (b.lower <= b.upper /\ (v = b.lower \/ v = b.upper))
                      => out.ret[i] = 0

\* C1 witness: a value exactly on the upper bound of a proper interval was
\* labelled 0.
C1_Witness ==
    /\ PredictedOk
    /\ \E i \in DOMAIN out.X :
          LET b == Bounds(out.d, out.X)[i]
          IN b.lower < b.upper /\ out.X[i] = b.upper /\ out.ret[i] = 0

\* C1 as stated: the same, with a value equal to either bound labelled 0
\* whatever the bounds are.
C1_Original ==
    PredictedOk =>
        \A i \in DOMAIN out.X :
            LET b == Bounds(out.d, out.X)[i]
                v == out.X[i]
            IN /\ out.ret[i] \in {0, 1}
               /\ out.ret[i] = 1 <=> (v < b.lower \/ v > b.upper)
               /\ (v = b.lower \/ v = b.upper) => out.ret[i] = 0

\* C2: a predict or predict_proba call on a detector that was never
\* successfully fitted fails with NotFittedError and returns nothing; a call
\* that returns has read a fitted interval source.
C2_NotFittedBeforeFit ==
    out.op \in PredOps =>
        /\ ~det[out.d].is_fitted =>
              out.status = "NotFittedError" /\ out.ret = <<>>
        /\ out.status = "ok" =>
              /\ det[out.d].is_fitted
              /\ det[out.d].forecaster_ # None
              /\ Source(out.d).is_fitted

\* C2 witness: predict failed with NotFittedError on a detector whose only
\* fit so far had failed (an unfitted clone is all it holds).
C2_Witness ==
    /\ out.op = "predict" /\ out.status = "NotFittedError"
    /\ ~det[out.d].is_fitted
    /\ det[out.d].forecaster_ # None

\* C3: construction succeeds exactly when the template is a forecaster with
\* the prediction-interval capability and 0 < coverage < 1; it then stores
\* both, and otherwise fails with the configuration error (ValueError) and
\* stores nothing.
C3_ConstructionValidates ==
    out.op = "construct" =>
        LET valid == /\ out.arg \in DOMAIN heap
                     /\ heap[out.arg].pred_int
                     /\ 0 < out.cov /\ out.cov < 10
        IN /\ out.status = "ok" <=> valid
           /\ valid => /\ det[out.d].made
                       /\ det[out.d].forecaster = out.arg
                       /\ det[out.d].coverage = out.cov
           /\ ~valid => out.status = "ValueError" /\ det[out.d] = Blank

\* C3 witness: coverage exactly 1 with a capable template was refused.
C3_Witness ==
    /\ out.op = "construct" /\ out.status = "ValueError"
    /\ out.arg = 1 /\ out.cov = 10
    /\ det[out.d] = Blank

TemplateUntouched ==
    /\ \A t \in Templates : ~heap[t].is_fitted /\ heap[t].y = <<>>
    /\ \A d \in Detectors :
          /\ det[d].forecaster_ \notin Templates
          /\ det[d].made => det[d].forecaster \in Templates

\* C4: whatever is called, on either detector, the caller's templates are
\* never fitted and never change, and the interval source a detector queries
\* is an object of its own, never the template.
C4_TemplateNeverFitted ==
    [](TemplateUntouched) /\ [][\A t \in Templates : heap'[t] = heap[t]]_vars

\* C4 witness: both detectors were built from template 1 and fitted, each on
\* its own clone, and a prediction was served.
C4_Witness ==
    /\ det[1].is_fitted /\ det[2].is_fitted
    /\ det[1].forecaster = 1 /\ det[2].forecaster = 1
    /\ det[1].forecaster_ # det[2].forecaster_
    /\ Source(1).is_fitted /\ Source(2).is_fitted
    /\ ScoredOk
    /\ ~heap[1].is_fitted

\* C5: on a zero-width interval predict_proba scores by the policy z = +inf
\* for a value off the centre and z = 0 for a value at the centre, and never
\* returns a not-a-number score.
C5_ZeroWidthPolicy ==
    ScoredOk =>
        \A i \in DOMAIN out.X :
            LET b == Bounds(out.d, out.X)[i]
                z == IF 2 * out.X[i] # b.upper + b.lower THEN PInf ELSE Fin(0, 1)
            IN b.upper = b.lower =>
                  /\ out.ret[i].k # "nan"
                  /\ out.ret[i] = sigmoid(MinusOne(z))

\* the labels and the scores of the last prediction call's query, each from
\* the call itself or from the other operation on the same state
LabelsNow == IF out.op = "predict" THEN out.ret ELSE predict(Now, out.d, out.X).ret

ScoresNow ==
    IF out.op = "predict_proba" THEN out.ret
    ELSE predict_proba(Now, out.d, out.X).ret

\* C6 (as amended): on every interval with lower <= upper a point is
\* labelled 1 exactly when its score is above 0.5; on every interval with
\* lower < upper a value on a bound has z = 1, score 0.5 and label 0.
C6_LabelIffScoreAboveHalf ==
    (PredictedOk \/ ScoredOk) =>
        \A i \in DOMAIN out.X :
            LET b == Bounds(out.d, out.X)[i]
                v == out.X[i]
                z == z_scores(out.X, lower_of(Bounds(out.d, out.X)),
                              upper_of(Bounds(out.d, out.X)))[i]
            IN /\ b.lower <= b.upper =>
                     (LabelsNow[i] = 1 <=> ScoreAboveHalf(ScoresNow[i]))
               /\ (b.lower < b.upper /\ (v = b.lower \/ v = b.upper)) =>
                     /\ FEq(z, Fin(1, 1))
                     /\ ScoresNow[i] = Fin(1, 2)
                     /\ LabelsNow[i] = 0

\* C6 witness: a value on the upper bound of a proper interval was scored
\* exactly 0.5.
C6_Witness ==
    /\ ScoredOk
    /\ \E i \in DOMAIN out.X :
          LET b == Bounds(out.d, out.X)[i]
          IN /\ b.lower < b.upper /\ out.X[i] = b.upper
             /\ out.ret[i] = Fin(1, 2)
             /\ LabelsNow[i] = 0

\* C6 as stated: the same on every interval, the degenerate ones (upper <=
\* lower) included.
C6_Original ==
    (PredictedOk \/ ScoredOk) =>
        \A i \in DOMAIN out.X :
            LET b == Bounds(out.d, out.X)[i]
                v == out.X[i]
                z == z_scores(out.X, lower_of(Bounds(out.d, out.X)),
                              upper_of(Bounds(out.d, out.X)))[i]
            IN /\ LabelsNow[i] = 1 <=> ScoreAboveHalf(ScoresNow[i])
               /\ (v = b.lower \/ v = b.upper) =>
                     /\ FEq(z, Fin(1, 1))
                     /\ ScoresNow[i] = Fin(1, 2)
                     /\ LabelsNow[i] = 0

\* C7: for the bounds of the last predict_proba call (lower <= upper, as a
\* prediction interval has them) and every other value v2 at least as far
\* from the centre as the scored value, the score of v2 is at least the
\* score returned.
C7_ScoreMonotone ==
    ScoredOk =>
        \A i \in DOMAIN out.X, v2 \in 0..MaxVal :
            LET b == Bounds(out.d, out.X)[i]
                s2 == predict_proba(Now, out.d, [j \in DOMAIN out.X |-> v2]).ret[i]
            IN (/\ b.lower <= b.upper
                /\ Abs(2 * out.X[i] - (b.upper + b.lower))
                      <= Abs(2 * v2 - (b.upper + b.lower)))
                  => ScoreLeq(out.ret[i], s2)

\* a prediction call leaves the objects and the detectors as they were
PredictionReadsOnly == out'.op \in PredOps => heap' = heap /\ det' = det

\* the call just served, made again, gives the same outcome
SameAgain ==
    /\ out.op = "predict" =>
          /\ predict(Now, out.d, out.X).ret = out.ret
          /\ (predict(Now, out.d, out.X).exc = "") = (out.status = "ok")
    /\ out.op = "predict_proba" =>
          /\ predict_proba(Now, out.d, out.X).ret = out.ret
          /\ (predict_proba(Now, out.d, out.X).exc = "") = (out.status = "ok")

\* C8: a prediction call changes neither the interval sources, nor the
\* templates, nor a detector's configuration, and the same call made again
\* returns the same labels or scores.
C8_PredictionDeterministic ==
    /\ [](SameAgain)
    /\ [][PredictionReadsOnly /\ (out'.again => out'.ret = out.ret)]_vars

\* C8 witness: the same query was served twice in a row by the same fitted
\* detector.
C8_Witness == out.again /\ out.op = "predict" /\ out.status = "ok"

\* C9: a successful fit on an already fitted detector leaves the detector
\* with a new object, the clone of its unfitted template fitted on the new
\* history alone; the detector stays fitted.
C9_RefitReplaces ==
    [][(out'.op = "fit" /\ out'.status = "ok" /\ out'.refit) =>
          LET d == out'.d
              new == det'[d].forecaster_
          IN /\ new # det[d].forecaster_
             /\ new \notin DOMAIN heap
             /\ ~heap[det[d].forecaster].is_fitted
             /\ heap'[new] = forecaster_fit(clone(heap[det[d].forecaster]), out'.X)
             /\ heap'[new].y = out'.X
             /\ det'[d].is_fitted
      ]_vars

\* C9 witness: a second fit succeeded and the detector's source holds its
\* history.
C9_Witness ==
    /\ out.op = "fit" /\ out.status = "ok" /\ out.refit
    /\ Source(out.d).y = out.X

\* C10: after a fit call that failed on an already fitted detector, the
\* detector still holds a fitted interval source.
C10_FailedRefitKeepsState ==
    (out.op = "fit" /\ out.status # "ok" /\ out.refit) =>
        /\ det[out.d].forecaster_ # None
        /\ Source(out.d).is_fitted

====
